---- MODULE Spec2Model ----
(***************************************************************************)
(* Model of src/mcp_server.py: the WebSocket hub (ConnectionManager), the  *)
(* /game/sync handler and the cost-gated analysis pipeline                  *)
(* (push_auto_analysis), as coroutines interleaving on one event loop.      *)
(* An action is one atomic segment of a coroutine: the code that runs       *)
(* between two awaits.                                                      *)
(***************************************************************************)
EXTENDS Integers, Sequences, FiniteSets, TLC

\* ---- bounds of the model ----
NumSubs == 3            \* websockets that may ever connect
MaxTips == 2            \* push_coaching_tip calls
TipSlots == 1           \* of which so many may be in flight at once
MaxDisconnects == 2     \* disconnect() calls per websocket
MaxSyncs == 2           \* /game/sync requests (one pipeline run each)
ClockSpan == 5          \* how far the clock may advance
MaxThreads == 2         \* hub threads that may ever be started
MaxEnsures == 3         \* ensure_hub_started calls
MaxToolCalls == 2       \* calls of the engine tools on the control thread
MaxHttpCalls == 2       \* /coach/query and /game/review requests
MaxResets == 1          \* /reset requests

Subs == 1..NumSubs
TipIds == 1..TipSlots
RunIds == 1..MaxSyncs
ThreadIds == 1..MaxThreads

Range(s) == {s[k] : k \in 1..Len(s)}

VARIABLES
    active_connections, \* ConnectionManager.active_connections (a list)
    conn,               \* per websocket: position of its websocket_endpoint coroutine
    alive,              \* per websocket: the transport still works
    disc_calls,         \* per websocket: number of disconnect() calls made
    send_failed,        \* websockets for which a send_text of a broadcast has raised
    tips,               \* the broadcast coroutines of push_coaching_tip in flight
    tips_pushed,        \* number of push_coaching_tip calls made
    runq,               \* coroutines handed to the loop, not yet started (FIFO)
    board,              \* the global board (as its position)
    game_context,       \* the game_context dict
    runs,               \* per /game/sync: its push_auto_analysis coroutine
    now,                \* time.time()
    llm_calls,          \* calls made to the generative backend
    critical_player_moves, \* coached-side moves classified Mistake or Blunder so far
    loop,               \* the global loop: 0 for None, else the thread that made it
    hub_thread,         \* the global hub_thread: 0 for None, else the thread
    threads,            \* per hub thread: unborn, started, serving or dead
    ensure,             \* ensure_hub_started: where it is, and the calls made
    tool,               \* the engine tool running on the control thread
    http,               \* the /coach/query or /game/review handler in flight
    engines,            \* engine processes alive that tools and handlers spawned
    raised,             \* operations that have propagated an exception
    control_writes,     \* shared objects written by code on the control thread
    resets              \* /reset requests served

vars == <<active_connections, conn, alive, disc_calls, send_failed, tips, tips_pushed,
          runq, board, game_context, runs, now, llm_calls,
          critical_player_moves, loop, hub_thread, threads, ensure, tool, http,
          engines, raised, control_writes, resets>>

hubVars == <<active_connections, conn, alive, disc_calls, send_failed>>
pipeVars == <<board, game_context, runs, now, llm_calls, critical_player_moves>>
hubThreadVars == <<loop, hub_thread, threads, ensure>>
ctlVars == <<loop, hub_thread, threads, ensure, tool, http, engines, raised,
             control_writes, resets>>

\* =========================================================================
\* ConnectionManager
\* =========================================================================

\* list.remove guarded by membership: removes the first occurrence
RECURSIVE RemoveFirst(_, _)
RemoveFirst(list, s) ==
    IF list = <<>> THEN <<>>
    ELSE IF Head(list) = s THEN Tail(list)
    ELSE <<Head(list)>> \o RemoveFirst(Tail(list), s)

\* a disconnect without the membership guard: it drops the last connection
\* when s is not there
disconnectUnguarded(list, s) ==
    IF s \in Range(list) THEN RemoveFirst(list, s)
    ELSE SubSeq(list, 1, Len(list) - 1)

\* ConnectionManager.disconnect
disconnect(list, s) ==
    IF s \in Range(list) THEN RemoveFirst(list, s) ELSE list

\* ---- broadcast: one record per call of ConnectionManager.broadcast ----
\*   pc, i, cur  : the for-loop (i = items the list iterator has consumed,
\*                 cur = the connection whose send_text is awaited)
\*   startList   : the live list when the call started
\*   endList     : the live list when it returned
\*   tried       : the connections send_text was called on, in order
\*   failedTo    : those for which it raised
\*   changed     : the live list was changed while the call was suspended
BcIdle ==
    [pc |-> "idle", i |-> 0, cur |-> 0, startList |-> <<>>, endList |-> <<>>,
     tried |-> <<>>, failedTo |-> {}, changed |-> FALSE]

\* the list iterator of "for connection in self.active_connections": it reads
\* the live list, by index, each time it is advanced
BcNext(bc, list) ==
    IF bc.i < Len(list)
    THEN [bc EXCEPT !.pc = "sending", !.i = bc.i + 1, !.cur = list[bc.i + 1],
                    !.tried = Append(bc.tried, list[bc.i + 1])]
    ELSE [bc EXCEPT !.pc = "done", !.cur = 0, !.endList = list]

\* broadcast, from the call to its first await (or to its return)
BcBegin(list) == BcNext([BcIdle EXCEPT !.startList = list], list)

\* a broadcast without the try/except: the first failure ends the loop
BcAfterSendAbort(bc, ok) ==
    IF ok THEN bc
    ELSE [bc EXCEPT !.failedTo = bc.failedTo \cup {bc.cur}, !.i = Len(bc.startList) + NumSubs]

\* the try/except around one send_text: the failure is noted and swallowed
BcAfterSend(bc, ok) ==
    IF ok THEN bc ELSE [bc EXCEPT !.failedTo = bc.failedTo \cup {bc.cur}]

\* an except branch that evicts the connection whose send raised
ListAfterSendEvict(list, s, ok) == IF ok THEN list ELSE disconnect(list, s)

\* what the except branch of broadcast does to the live list: nothing
\* ("we let disconnect handler handle it")
ListAfterSend(list, s, ok) == list

\* the await of send_text returns (or raises), then the loop goes on
BcAdvance(bc, list, ok) == BcNext(BcAfterSend(bc, ok), list)

\* every broadcast in flight notes that the live list was changed under it
NoteChange(bc) == IF bc.pc = "sending" THEN [bc EXCEPT !.changed = TRUE] ELSE bc

NoteAll(f) == [k \in DOMAIN f |-> NoteChange(f[k])]
NoteRuns(f) == [k \in DOMAIN f |-> [f[k] EXCEPT !.bc = NoteChange(f[k].bc)]]

\* ---- connect: lines 57-68, one action per await ----

\* websocket_endpoint is entered and connect awaits websocket.accept()
ConnectStart(s) ==
    /\ conn[s] = "new"
    /\ \A o \in Subs : o < s => conn[o] /= "new"
    /\ conn' = [conn EXCEPT ![s] = "accepting"]
    /\ UNCHANGED <<active_connections, alive, disc_calls, send_failed, tips, tips_pushed, runq>>
    /\ UNCHANGED pipeVars
    /\ UNCHANGED ctlVars

\* accept returns: the websocket is appended and the greeting is sent; or
\* accept raises: connect returns False
ConnectAccepted(s) ==
    /\ conn[s] = "accepting"
    /\ IF alive[s]
       THEN /\ active_connections' = Append(active_connections, s)
            /\ conn' = [conn EXCEPT ![s] = "greeting"]
            /\ tips' = NoteAll(tips)
            /\ runs' = NoteRuns(runs)
       ELSE /\ conn' = [conn EXCEPT ![s] = "failed"]
            /\ UNCHANGED <<active_connections, tips, runs>>
    /\ UNCHANGED <<alive, disc_calls, send_failed, tips_pushed, runq, board, game_context, now, llm_calls, critical_player_moves>>
    /\ UNCHANGED ctlVars

\* the greeting is sent and the state snapshot is being sent; or the send
\* raises: connect returns False
ConnectGreeted(s) ==
    /\ conn[s] = "greeting"
    /\ conn' = [conn EXCEPT ![s] = IF alive[s] THEN "snapshot" ELSE "failed"]
    /\ UNCHANGED <<active_connections, alive, disc_calls, send_failed, tips, tips_pushed, runq>>
    /\ UNCHANGED pipeVars
    /\ UNCHANGED ctlVars

\* the snapshot is sent: connect returns True and the endpoint awaits
\* receive_text; or the send raises: connect returns False
ConnectSnapshot(s) ==
    /\ conn[s] = "snapshot"
    /\ conn' = [conn EXCEPT ![s] = IF alive[s] THEN "open" ELSE "failed"]
    /\ UNCHANGED <<active_connections, alive, disc_calls, send_failed, tips, tips_pushed, runq>>
    /\ UNCHANGED pipeVars
    /\ UNCHANGED ctlVars

\* the peer goes away: every later accept / send on this websocket raises
TransportDrop(s) ==
    /\ conn[s] \in {"accepting", "greeting", "snapshot", "open"}
    /\ alive[s]
    /\ alive' = [alive EXCEPT ![s] = FALSE]
    /\ UNCHANGED <<active_connections, conn, disc_calls, send_failed, tips, tips_pushed, runq>>
    /\ UNCHANGED pipeVars
    /\ UNCHANGED ctlVars

\* a call of manager.disconnect(s), with its effect on the broadcasts in flight
DoDisconnect(s) ==
    /\ active_connections' = disconnect(active_connections, s)
    /\ disc_calls' = [disc_calls EXCEPT ![s] = @ + 1]
    /\ IF s \in Range(active_connections)
       THEN tips' = NoteAll(tips) /\ runs' = NoteRuns(runs)
       ELSE UNCHANGED <<tips, runs>>

\* receive_text raises WebSocketDisconnect: the endpoint calls disconnect
EndpointDisconnect(s) ==
    /\ conn[s] = "open"
    /\ ~alive[s]
    /\ conn' = [conn EXCEPT ![s] = "closed"]
    /\ DoDisconnect(s)
    /\ UNCHANGED <<alive, send_failed, tips_pushed, runq, board, game_context, now, llm_calls, critical_player_moves>>
    /\ UNCHANGED ctlVars

\* disconnect called again for a websocket that was already removed
RepeatDisconnect(s) ==
    /\ conn[s] = "closed"
    /\ disc_calls[s] < MaxDisconnects
    /\ DoDisconnect(s)
    /\ UNCHANGED <<conn, alive, send_failed, tips_pushed, runq, board, game_context, now, llm_calls, critical_player_moves>>
    /\ UNCHANGED ctlVars

\* a loop that starts the task handed over last
NextTaskNewest(q) == q[Len(q)]

\* the loop runs what was handed to it in the order of the hand-over
\* (call_soon_threadsafe appends to the loop's queue of ready callbacks)
NextTask(q) == Head(q)

\* the loop that the global "loop" names is being run by its thread
LoopServing == loop /= 0 /\ threads[loop] = "serving"

\* the import has finished and the control thread is between two tools
ToolsCallable == ensure.pc \in {"ready", "warned"} /\ tool.pc = "idle"

\* ---- push_coaching_tip: lines 810-821 ----
\* run_coroutine_threadsafe hands manager.broadcast(payload) to the loop
PushCoachingTip(t) ==
    /\ ToolsCallable
    /\ LoopServing
    /\ tips[t].pc = "idle"
    /\ \A o \in TipIds : o < t => tips[o].pc /= "idle"
    /\ tips_pushed < MaxTips
    /\ tips_pushed' = tips_pushed + 1
    /\ tips' = [tips EXCEPT ![t].pc = "queued"]
    /\ runq' = Append(runq, <<"tip", t>>)
    /\ UNCHANGED hubVars
    /\ UNCHANGED pipeVars
    /\ UNCHANGED ctlVars

\* the loop starts the queued broadcast: it runs to its first await
TipStart(t) ==
    /\ runq /= <<>>
    /\ NextTask(runq) = <<"tip", t>>
    /\ runq' = Tail(runq)
    /\ tips' = [tips EXCEPT ![t] = BcBegin(active_connections)]
    /\ UNCHANGED tips_pushed
    /\ UNCHANGED hubVars
    /\ UNCHANGED pipeVars
    /\ UNCHANGED ctlVars

\* one awaited send_text of a broadcast completes
TipSendDone(t) ==
    /\ tips[t].pc = "sending"
    /\ LET s == tips[t].cur
           ok == alive[s]
           list == ListAfterSend(active_connections, s, ok)
       IN /\ active_connections' = list
          /\ send_failed' = IF ok THEN send_failed ELSE send_failed \cup {s}
          /\ tips' = [tips EXCEPT ![t] = BcAdvance(tips[t], list, ok)]
    /\ UNCHANGED <<conn, alive, disc_calls, tips_pushed, runq>>
    /\ UNCHANGED pipeVars
    /\ UNCHANGED ctlVars

\* the broadcast coroutine of a tip has returned and is dropped by the loop
TipReturn(t) ==
    /\ tips[t].pc = "done"
    /\ tips' = [tips EXCEPT ![t] = BcIdle]
    /\ UNCHANGED <<tips_pushed, runq>>
    /\ UNCHANGED hubVars
    /\ UNCHANGED pipeVars
    /\ UNCHANGED ctlVars

\* =========================================================================
\* /game/sync and push_auto_analysis
\* =========================================================================

\* scores are kept in tenths of a centipawn, so that 0.3 is the integer 3
Cp(x) == 10 * x

PrevScoreInit == 3          \* "prev_score": 0.3
PacingWindow == 5           \* time_since_tip < 5.0
BlunderCp == 250
MistakeCp == 100
InaccuracyCp == 30
GreatCp == 50

NowInit == 2 * PacingWindow \* the epoch clock is far beyond the pacing window
MaxNow == NowInit + ClockSpan

\* relative scores the engine may report (centipawns, side to move's view):
\* a few that reach every tier, and those that sit on and next to the
\* thresholds
RawScores == {0 - 51, 0, 101}
BoundaryScores == {0 - 51, 0 - 50, 0, 30, 31, 100, 101, 250, 251}
\* top_pv["pv"]: absent, a legal quiet move, a legal capture, a move that is
\* not legal in the position
PvKinds == {"none", "quiet", "capture", "illegal"}
\* by how much the clock has advanced when it is read again
ClockSteps == {0, 2, PacingWindow}

Colors == {"white", "black"}
Other(c) == IF c = "white" THEN "black" ELSE "white"

\* position strings: the n-th reported position with the given side to move,
\* or a string chess.Board() rejects
Fen(n, turn) == [id |-> n, turn |-> turn, ok |-> TRUE]
BadFen(n) == [id |-> n, turn |-> "white", ok |-> FALSE]
STARTING_FEN == Fen(0, "white")
NoMove == 0                 \* last_move is None; the move of the n-th sync is n
PgnEmpty == ""              \* game_context["pgn"] at import and after a reset
PgnMoves == "1. e4"         \* the move text of a request of a game under way

\* the tiers with inclusive comparisons
ClassifyInclusive(delta, material_lost) ==
    IF delta >= Cp(BlunderCp) \/ (material_lost /\ delta >= Cp(MistakeCp)) THEN "Blunder"
    ELSE IF delta >= Cp(MistakeCp) THEN "Mistake"
    ELSE IF delta >= Cp(InaccuracyCp) THEN "Inaccuracy"
    ELSE IF delta <= 0 - Cp(GreatCp) THEN "Great Move"
    ELSE "Good"

\* lines 517-537: the tier of a move
Classify(delta, material_lost) ==
    IF delta > Cp(BlunderCp) \/ (material_lost /\ delta > Cp(MistakeCp)) THEN "Blunder"
    ELSE IF delta > Cp(MistakeCp) THEN "Mistake"
    ELSE IF delta > Cp(InaccuracyCp) THEN "Inaccuracy"
    ELSE IF delta < 0 - Cp(GreatCp) THEN "Great Move"
    ELSE "Good"

IsCritical(classification) == classification \in {"Blunder", "Mistake"}

\* one record per call of push_auto_analysis
\*   pc      : the await the coroutine is suspended at
\*   fen     : its argument
\*   the locals of the coroutine, as far as they have been assigned
\*   raw     : the relative score the engine reported (score_after_raw)
\*   pubs    : the broadcasts it has called, in order
\*   final   : what the final message is made of
\*   backend_called : the generative backend was called for this move
\*   end     : how it ended
RunIdle ==
    [pc |-> "idle", fen |-> STARTING_FEN, judged |-> FALSE, analysed |-> FALSE,
     is_player_move |-> FALSE, cpu_on |-> FALSE, side_who_moved |-> "white",
     delta |-> 0, material_lost |-> FALSE, classification |-> "Good",
     pv |-> "none", current_time |-> 0, tip_time |-> 0, llm_response |-> FALSE,
     raw |-> 0, api_key |-> FALSE, backend_called |-> FALSE, final |-> {},
     pubs |-> <<>>, bc |-> BcIdle, end |-> ""]

Finish(run, how) == [run EXCEPT !.pc = "done", !.end = how]

\* ---- the synchronous stretches of push_auto_analysis after the analysis ----

\* a fallback that never names the best move
BetterLineNever(pv) == FALSE

\* lines 749-754: the "Better: <san>" line is added when top_pv has a move
\* and board.san() accepts it, as it does a legal move
BetterLine(pv) == pv \in {"quiet", "capture"}

\* lines 725-754: the backend's text, or the fixed fallback text with the
\* "Better" line
FinalMessage(llm_response, pv) ==
    IF llm_response THEN {"llm_text"}
    ELSE {"fallback_text"} \cup (IF BetterLine(pv) THEN {"better"} ELSE {})

\* a run that ends at stage 3 without its final broadcast
PublishFinalSkipped(run, list) == [run EXCEPT !.pc = "quit", !.end = "published"]

\* lines 756-764: the final broadcast is called; with nobody connected it
\* returns at once and the coroutine goes on to "finally: await engine.quit()"
PublishFinal(run, list) ==
    LET b == BcBegin(list)
        kind == IF run.llm_response THEN "final_llm" ELSE "final_fallback"
        r1 == [run EXCEPT !.pubs = Append(run.pubs, kind), !.bc = b,
                          !.final = FinalMessage(run.llm_response, run.pv)]
    IN IF b.pc = "done" THEN [r1 EXCEPT !.pc = "quit", !.end = "published"]
       ELSE [r1 EXCEPT !.pc = "bc_final"]

\* stage 3 without the legality check of the best move
Stage3NoLegalityCheck(run, list, api_key) ==
    IF api_key /\ run.pv /= "none"
    THEN [run EXCEPT !.pc = "llm", !.api_key = api_key, !.backend_called = TRUE]
    ELSE PublishFinal([run EXCEPT !.api_key = api_key, !.llm_response = FALSE], list)

\* lines 629-652: the backend is called only with an api key and a best move
\* that is legal in the position; otherwise the fallback is assembled
Stage3(run, list, api_key) ==
    IF api_key /\ run.pv \in {"quiet", "capture"}
    THEN [run EXCEPT !.pc = "llm", !.api_key = api_key, !.backend_called = TRUE]
    ELSE PublishFinal([run EXCEPT !.api_key = api_key, !.llm_response = FALSE], list)

\* a broadcast awaited by the pipeline has returned
AfterBroadcast(run, list, api_key) ==
    IF run.pc = "bc_hold" THEN Stage3(run, list, api_key)
    ELSE [run EXCEPT !.pc = "quit", !.end = "published"]

\* await manager.broadcast(...) at lines 591, 615, 627
Publish(run, kind, list, api_key) ==
    LET b == BcBegin(list)
        r1 == [run EXCEPT !.pubs = Append(run.pubs, kind), !.bc = b,
                          !.pc = IF kind = "holding" THEN "bc_hold" ELSE "bc_cheap"]
    IN IF b.pc = "done" THEN AfterBroadcast(r1, list, api_key) ELSE r1

\* a cost gate that escalates every coached-side move
CostGateAlwaysLlm(run, list, api_key) ==
    IF ~run.is_player_move THEN Publish(run, "cpu", list, api_key)
    ELSE Publish(run, "holding", list, api_key)

\* a cost gate that escalates critical moves of either side
CostGateNoSideCheck(run, list, api_key) ==
    IF ~IsCritical(run.classification)
    THEN Publish(run, IF run.is_player_move THEN "simple" ELSE "cpu", list, api_key)
    ELSE Publish(run, "holding", list, api_key)

\* a cost gate that goes to stage 3 without the holding message
CostGateNoHolding(run, list, api_key) ==
    IF ~run.is_player_move THEN Publish(run, "cpu", list, api_key)
    ELSE IF ~IsCritical(run.classification)
    THEN Publish(run, "simple", list, api_key)
    ELSE Stage3(run, list, api_key)

\* lines 578-627: the cost gate
CostGate(run, list, api_key) ==
    IF ~run.is_player_move THEN Publish(run, "cpu", list, api_key)
    ELSE IF ~IsCritical(run.classification)
    THEN Publish(run, "simple", list, api_key)
    ELSE Publish(run, "holding", list, api_key)

\* a pacing gate that also suppresses at exactly 5 time units
SuppressedInclusive(is_player_move, is_critical, current_time, tip_time) ==
    /\ ~is_player_move
    /\ ~is_critical
    /\ current_time - tip_time <= PacingWindow

\* lines 569-573: is this event suppressed?
Suppressed(is_player_move, is_critical, current_time, tip_time) ==
    /\ ~is_player_move
    /\ ~is_critical
    /\ current_time - tip_time < PacingWindow

\* a pipeline without the analyze_cpu check
SkipCpuNever(is_player_move, analyze_cpu) == FALSE

\* lines 468-476: the mover is the side that is not to move; the run is
\* skipped for the other side's moves unless analyze_cpu is on
SkipCpu(is_player_move, analyze_cpu) == ~is_player_move /\ ~analyze_cpu

\* a timestamp that every analysed move sets
TipTimeAlways(is_critical, current_time, last_critical_tip_time) == current_time

\* lines 565-568: a Mistake or Blunder, of either side, sets the timestamp
TipTime(is_critical, current_time, last_critical_tip_time) ==
    IF is_critical THEN current_time ELSE last_critical_tip_time

\* a delta against the baseline of the start of the game
DeltaFromInitial(prev_score, score_after_player_pov) == PrevScoreInit - score_after_player_pov

\* a delta taken the other way round
DeltaReversed(prev_score, score_after_player_pov) == score_after_player_pov - prev_score

\* line 496: delta = prev_score - score_after_player_pov
Delta(prev_score, score_after_player_pov) == prev_score - score_after_player_pov

\* ---- /game/sync: lines 329-367 ----
GameSyncPgn(r, fens, moves, sides, pgns) ==
    /\ runs[r].pc = "idle"
    /\ \A o \in RunIds : o < r => runs[o].pc /= "idle"
    /\ \E fen \in fens, last_move \in moves, player_color \in sides, analyze_cpu \in BOOLEAN,
          pgn \in pgns :
          /\ game_context' = [game_context EXCEPT !.fen = fen, !.pgn = pgn,
                                                  !.last_move = last_move,
                                                  !.turn = fen.turn,
                                                  !.player_color = player_color,
                                                  !.analyze_cpu = analyze_cpu]
          /\ board' = IF fen.ok THEN fen ELSE board
          /\ runs' = [runs EXCEPT ![r] = [RunIdle EXCEPT !.pc = "queued", !.fen = fen]]
    /\ runq' = Append(runq, <<"run", r>>)
    /\ UNCHANGED <<tips, tips_pushed, now, llm_calls, critical_player_moves>>
    /\ UNCHANGED hubVars
    /\ UNCHANGED ctlVars

\* a sync whose request carries the move text of a game under way
GameSyncWith(r, fens, moves, sides) == GameSyncPgn(r, fens, moves, sides, {PgnMoves})

GameSync(r) ==
    GameSyncWith(r, {Fen(r, "white"), Fen(r, "black"), BadFen(r)}, {NoMove, r}, Colors)

\* ---- push_auto_analysis: lines 457-769, one action per await ----

\* lines 464-478: the loop starts the coroutine; it runs to "await popen_uci"
RunStart(r) ==
    /\ runq /= <<>>
    /\ NextTask(runq) = <<"run", r>>
    /\ runq' = Tail(runq)
    /\ \E stockfish_exists \in BOOLEAN :
          LET run == runs[r]
              side == Other(run.fen.turn)
              is_player == (side = game_context.player_color)
              seen == [run EXCEPT !.judged = TRUE, !.side_who_moved = side,
                                  !.is_player_move = is_player,
                                  !.cpu_on = game_context.analyze_cpu]
          IN runs' = [runs EXCEPT ![r] =
                 IF ~stockfish_exists THEN Finish(run, "no_engine")
                 ELSE IF ~run.fen.ok THEN Finish(run, "bad_fen")
                 ELSE IF SkipCpu(is_player, game_context.analyze_cpu)
                      THEN Finish(seen, "cpu_off")
                 ELSE [seen EXCEPT !.pc = "popen"]]
    /\ UNCHANGED <<tips, tips_pushed, board, game_context, now, llm_calls, critical_player_moves>>
    /\ UNCHANGED hubVars
    /\ UNCHANGED ctlVars

\* line 478: popen_uci returns the engine, or raises (caught at line 768)
RunSpawned(r) ==
    /\ runs[r].pc = "popen"
    /\ \E spawned \in BOOLEAN :
          runs' = [runs EXCEPT ![r] =
                 IF spawned THEN [runs[r] EXCEPT !.pc = "analyse"]
                 ELSE Finish(runs[r], "spawn_failed")]
    /\ UNCHANGED <<tips, tips_pushed, runq, board, game_context, now, llm_calls, critical_player_moves>>
    /\ UNCHANGED hubVars
    /\ UNCHANGED ctlVars

\* line 485 raises: the finally clause awaits engine.quit()
RunAnalyseFailed(r) ==
    /\ runs[r].pc = "analyse"
    /\ runs' = [runs EXCEPT ![r] = [runs[r] EXCEPT !.pc = "quit", !.end = "analyse_failed"]]
    /\ UNCHANGED <<tips, tips_pushed, runq, board, game_context, now, llm_calls, critical_player_moves>>
    /\ UNCHANGED hubVars
    /\ UNCHANGED ctlVars

\* lines 485-627: the analysis returns; delta, tier, history, pacing and cost
\* gate, up to the next await
RunAnalysedWith(r, scores, pvs) ==
    /\ runs[r].pc = "analyse"
    /\ \E raw \in scores, pv \in pvs, t \in {now + d : d \in ClockSteps} \cap (now..MaxNow),
          api_key \in BOOLEAN :
          LET run == runs[r]
              score_after_player_pov == 0 - Cp(raw)
              delta == Delta(game_context.prev_score, score_after_player_pov)
              material_lost == game_context.last_move /= NoMove /\ pv = "capture"
              classification == Classify(delta, material_lost)
              is_critical == IsCritical(classification)
              tip_time == TipTime(is_critical, t, game_context.last_critical_tip_time)
              rec == [fen |-> run.fen, move |-> game_context.last_move,
                      cp_loss |-> delta, turn |-> run.side_who_moved]
              r1 == [run EXCEPT !.analysed = TRUE, !.raw = raw, !.delta = delta,
                                !.material_lost = material_lost,
                                !.classification = classification, !.pv = pv,
                                !.current_time = t, !.tip_time = tip_time]
          IN /\ now' = t
             /\ game_context' =
                    [game_context EXCEPT
                        !.prev_score = score_after_player_pov,
                        !.last_move_quality = classification,
                        !.analysis_history = Append(@, rec),
                        !.hot_squares = IF pv = "none" THEN {}
                                        ELSE IF pv = "capture" THEN {"gold", "red"}
                                        ELSE {"gold"},
                        !.active_challenge = FALSE,
                        !.last_critical_tip_time = tip_time]
             /\ runs' = [runs EXCEPT ![r] =
                    IF Suppressed(run.is_player_move, is_critical, t, tip_time)
                    THEN [r1 EXCEPT !.pc = "quit", !.end = "suppressed"]
                    ELSE CostGate(r1, active_connections, api_key)]
             /\ llm_calls' = IF runs'[r].pc = "llm" THEN llm_calls + 1 ELSE llm_calls
             /\ critical_player_moves' =
                    IF run.is_player_move /\ is_critical THEN critical_player_moves + 1
                    ELSE critical_player_moves
    /\ UNCHANGED <<tips, tips_pushed, runq, board>>
    /\ UNCHANGED hubVars
    /\ UNCHANGED ctlVars

RunAnalysed(r) == RunAnalysedWith(r, RawScores, {"none", "capture"})

\* one awaited send_text of a broadcast of the pipeline completes
RunSendDone(r) ==
    /\ runs[r].pc \in {"bc_cheap", "bc_hold", "bc_final"}
    /\ \E api_key \in BOOLEAN :
          LET run == runs[r]
              s == run.bc.cur
              ok == alive[s]
              list == ListAfterSend(active_connections, s, ok)
              b == BcAdvance(run.bc, list, ok)
              r1 == [run EXCEPT !.bc = b]
          IN /\ active_connections' = list
             /\ send_failed' = IF ok THEN send_failed ELSE send_failed \cup {s}
             /\ runs' = [runs EXCEPT ![r] =
                    IF b.pc = "done" THEN AfterBroadcast(r1, list, api_key)
                    ELSE r1]
             /\ llm_calls' = IF runs'[r].pc = "llm" THEN llm_calls + 1 ELSE llm_calls
    /\ UNCHANGED <<conn, alive, disc_calls, tips, tips_pushed, runq, board, game_context, now,
                   critical_player_moves>>
    /\ UNCHANGED ctlVars

\* lines 705-764: the backend call returns text, returns nothing or raises;
\* the final message is assembled and broadcast
RunLlmDone(r) ==
    /\ runs[r].pc = "llm"
    /\ \E answer \in {"text", "empty", "error"} :
          runs' = [runs EXCEPT ![r] =
                 PublishFinal([runs[r] EXCEPT !.llm_response = (answer = "text")],
                              active_connections)]
    /\ UNCHANGED <<tips, tips_pushed, runq, board, game_context, now, llm_calls, critical_player_moves>>
    /\ UNCHANGED hubVars
    /\ UNCHANGED ctlVars

\* line 767: engine.quit() returns (or raises, caught at line 768)
RunQuit(r) ==
    /\ runs[r].pc = "quit"
    /\ runs' = [runs EXCEPT ![r].pc = "done"]
    /\ UNCHANGED <<tips, tips_pushed, runq, board, game_context, now, llm_calls, critical_player_moves>>
    /\ UNCHANGED hubVars
    /\ UNCHANGED ctlVars

\* the coroutine has returned and is dropped by the loop
RunReturn(r) ==
    /\ runs[r].pc = "done"
    /\ runs' = [runs EXCEPT ![r] = [RunIdle EXCEPT !.pc = "returned"]]
    /\ UNCHANGED <<tips, tips_pushed, runq, board, game_context, now, llm_calls, critical_player_moves>>
    /\ UNCHANGED hubVars
    /\ UNCHANGED ctlVars

\* =========================================================================
\* the hub thread and the tools of the control thread
\* =========================================================================

ToolIdle == [op |-> "none", pc |-> "idle", calls |-> 0, asked |-> STARTING_FEN]
HttpIdle == [op |-> "none", pc |-> "idle", calls |-> 0]

ToolReturn(tl) == [tl EXCEPT !.op = "none", !.pc = "idle", !.asked = STARTING_FEN]

\* an ensure_hub_started that starts a thread on every call
NeedsThreadAlways(ht, th) == TRUE

\* line 866: hub_thread is None or not hub_thread.is_alive()
NeedsThread(ht, th) == ht = 0 \/ th[ht] = "dead"

AliveThreads == {k \in ThreadIds : threads[k] \in {"started", "serving"}}
Unborn == {k \in ThreadIds : threads[k] = "unborn"}

\* lines 864-873: the check, the thread start, and the entry of the wait
EnsureHubStarted ==
    /\ ensure.pc /= "waiting"
    /\ tool.pc = "idle"
    /\ ensure.calls < MaxEnsures
    /\ IF NeedsThread(hub_thread, threads)
       THEN /\ Unborn /= {}
            /\ LET k == CHOOSE u \in Unborn : \A o \in Unborn : u <= o
               IN /\ hub_thread' = k
                  /\ threads' = [threads EXCEPT ![k] = "started"]
       ELSE UNCHANGED <<hub_thread, threads>>
    /\ ensure' = [pc |-> "waiting", calls |-> ensure.calls + 1]
    /\ UNCHANGED <<loop, tool, http, engines, raised, control_writes, resets>>
    /\ UNCHANGED <<tips, tips_pushed, runq>>
    /\ UNCHANGED hubVars
    /\ UNCHANGED pipeVars

\* lines 874-879: the wait ends because loop is set, or after max_wait
EnsureWaitEnd ==
    /\ ensure.pc = "waiting"
    /\ ensure' = [ensure EXCEPT !.pc = IF loop = 0 THEN "warned" ELSE "ready"]
    /\ UNCHANGED <<loop, hub_thread, threads, tool, http, engines, raised, control_writes, resets>>
    /\ UNCHANGED <<tips, tips_pushed, runq>>
    /\ UNCHANGED hubVars
    /\ UNCHANGED pipeVars

\* lines 852-862: the thread makes its loop and begins to serve
HubThreadBoot(k) ==
    /\ threads[k] = "started"
    /\ loop' = k
    /\ threads' = [threads EXCEPT ![k] = "serving"]
    /\ UNCHANGED <<hub_thread, ensure, tool, http, engines, raised, control_writes, resets>>
    /\ UNCHANGED <<tips, tips_pushed, runq>>
    /\ UNCHANGED hubVars
    /\ UNCHANGED pipeVars

\* line 862: server.serve() ends or raises and the thread is gone; what was
\* handed to its loop and not yet run never runs
HubThreadDies(k) ==
    /\ threads[k] = "serving"
    /\ threads' = [threads EXCEPT ![k] = "dead"]
    /\ runq' = <<>>
    /\ tips' = [t \in TipIds |-> BcIdle]
    /\ UNCHANGED <<loop, hub_thread, ensure, tool, http, engines, raised, control_writes, resets>>
    /\ UNCHANGED tips_pushed
    /\ UNCHANGED hubVars
    /\ UNCHANGED pipeVars

\* push_coaching_tip, lines 813-821, when the loop is not being run: with
\* loop None the error string of line 814 is returned; with the loop of a
\* dead thread call_soon_threadsafe queues a callback that never runs
PushCoachingTipOffline ==
    /\ ToolsCallable
    /\ ~LoopServing
    /\ tips_pushed < MaxTips
    /\ tips_pushed' = tips_pushed + 1
    /\ UNCHANGED <<tips, runq>>
    /\ UNCHANGED hubVars
    /\ UNCHANGED pipeVars
    /\ UNCHANGED ctlVars

\* asyncio.run_coroutine_threadsafe(manager.broadcast(...), loop) called with
\* the global loop: the broadcast is queued on a loop that is served, lost on
\* the loop of a dead thread, and the call raises AttributeError on None
FreeTip == CHOOSE t \in TipIds : tips[t].pc = "idle" /\ \A o \in TipIds : o < t => tips[o].pc /= "idle"

ScheduleBroadcast ==
    IF LoopServing
    THEN /\ \E t \in TipIds : tips[t].pc = "idle"
         /\ tips' = [tips EXCEPT ![FreeTip].pc = "queued"]
         /\ runq' = Append(runq, <<"tip", FreeTip>>)
    ELSE UNCHANGED <<tips, runq>>

\* ---- play_engine_move: lines 823-846 ----

\* lines 826-829: the game-over check, then await popen_uci
PlayEngineMoveStart ==
    /\ ToolsCallable
    /\ tool.calls < MaxToolCalls
    /\ \E game_over \in BOOLEAN :
          tool' = IF game_over THEN [tool EXCEPT !.calls = @ + 1]
                  ELSE [tool EXCEPT !.op = "play_engine_move", !.pc = "popen",
                                    !.calls = @ + 1]
    /\ UNCHANGED <<loop, hub_thread, threads, ensure, http, engines, raised, control_writes, resets>>
    /\ UNCHANGED <<tips, tips_pushed, runq>>
    /\ UNCHANGED hubVars
    /\ UNCHANGED pipeVars

\* lines 781-784: the path check, then await popen_uci
GetBoardAnalysisStart ==
    /\ ToolsCallable
    /\ tool.calls < MaxToolCalls
    /\ \E stockfish_exists \in BOOLEAN :
          tool' = IF ~stockfish_exists THEN [tool EXCEPT !.calls = @ + 1]
                  ELSE [tool EXCEPT !.op = "get_board_analysis", !.pc = "popen",
                                    !.calls = @ + 1]
    /\ UNCHANGED <<loop, hub_thread, threads, ensure, http, engines, raised, control_writes, resets>>
    /\ UNCHANGED <<tips, tips_pushed, runq>>
    /\ UNCHANGED hubVars
    /\ UNCHANGED pipeVars

\* lines 784 and 829: popen_uci returns the engine, or raises; neither call
\* is inside a try block, so the exception leaves the tool. play_engine_move
\* goes on to lines 832-837: after a Mistake or Blunder it sleeps, else it
\* calls engine.play with the global board as it is now (asked)
ToolSpawned ==
    /\ tool.pc = "popen"
    /\ \E spawned \in BOOLEAN :
          IF spawned
          THEN /\ engines' = engines + 1
               /\ tool' = [tool EXCEPT
                      !.pc = IF tool.op = "get_board_analysis" THEN "analyse"
                             ELSE IF IsCritical(game_context.last_move_quality) THEN "sleep"
                             ELSE "play",
                      !.asked = board]
               /\ UNCHANGED raised
          ELSE /\ raised' = raised \cup {<<tool.op, "spawn">>}
               /\ tool' = ToolReturn(tool)
               /\ UNCHANGED engines
    /\ UNCHANGED <<loop, hub_thread, threads, ensure, http, control_writes, resets>>
    /\ UNCHANGED <<tips, tips_pushed, runq>>
    /\ UNCHANGED hubVars
    /\ UNCHANGED pipeVars

\* the position after the engine's move
AfterEngineMove(b) == [id |-> MaxSyncs + 1, turn |-> Other(b.turn), ok |-> TRUE]

\* lines 835-837: asyncio.sleep(2.0) returns and engine.play is called with
\* the global board as it is now
PlayEngineMoveSlept ==
    /\ tool.pc = "sleep"
    /\ tool' = [tool EXCEPT !.pc = "play", !.asked = board]
    /\ UNCHANGED <<loop, hub_thread, threads, ensure, http, engines, raised, control_writes, resets>>
    /\ UNCHANGED <<tips, tips_pushed, runq>>
    /\ UNCHANGED hubVars
    /\ UNCHANGED pipeVars

\* lines 838-839: board.san and board.push act on the global board as it
\* is when engine.play has returned
PushedOn(b, asked) == b

\* lines 837-846: engine.play returns or raises; the move is pushed on the
\* global board and the broadcast is scheduled; "finally" awaits
\* engine.quit(). On a board that is no longer the one the engine was asked
\* about, board.san may reject the move (the exception leaves the tool) or
\* accept it
PlayEngineMovePlayed ==
    /\ tool.pc = "play"
    /\ \E outcome \in {"error", "moved", "rejected"} :
          /\ outcome = "rejected" => board /= tool.asked
          /\ IF outcome /= "moved"
             THEN /\ tool' = [tool EXCEPT !.pc = IF outcome = "error" THEN "quit_engine_error"
                                                ELSE "quit_san_error"]
                  /\ UNCHANGED <<board, control_writes, tips, runq>>
             ELSE /\ board' = AfterEngineMove(PushedOn(board, tool.asked))
                  /\ control_writes' = control_writes \cup {"board"}
                  /\ ScheduleBroadcast
                  /\ tool' = [tool EXCEPT !.pc = IF loop = 0 THEN "quit_no_loop" ELSE "quit"]
    /\ UNCHANGED <<loop, hub_thread, threads, ensure, http, engines, raised, resets>>
    /\ UNCHANGED <<tips_pushed, game_context, runs, now, llm_calls, critical_player_moves>>
    /\ UNCHANGED hubVars

\* lines 786-795: engine.analyse returns or raises; board is only read
GetBoardAnalysisDone ==
    /\ tool.pc = "analyse"
    /\ \E analysed \in BOOLEAN :
          tool' = [tool EXCEPT !.pc = IF analysed THEN "quit" ELSE "quit_engine_error"]
    /\ UNCHANGED <<loop, hub_thread, threads, ensure, http, engines, raised, control_writes, resets>>
    /\ UNCHANGED <<tips, tips_pushed, runq>>
    /\ UNCHANGED hubVars
    /\ UNCHANGED pipeVars

\* lines 794-795 and 845-846: engine.quit() has returned; the tool returns
\* its string, or the exception that reached the finally clause goes on
ToolQuit ==
    /\ tool.pc \in {"quit", "quit_no_loop", "quit_engine_error", "quit_san_error"}
    /\ engines' = engines - 1
    /\ raised' = IF tool.pc = "quit_no_loop" THEN raised \cup {<<tool.op, "schedule">>}
                 ELSE IF tool.pc = "quit_engine_error" THEN raised \cup {<<tool.op, "engine">>}
                 ELSE IF tool.pc = "quit_san_error" THEN raised \cup {<<tool.op, "san">>}
                 ELSE raised
    /\ tool' = ToolReturn(tool)
    /\ UNCHANGED <<loop, hub_thread, threads, ensure, http, control_writes, resets>>
    /\ UNCHANGED <<tips, tips_pushed, runq>>
    /\ UNCHANGED hubVars
    /\ UNCHANGED pipeVars

\* ---- /reset (lines 300-327) and /game/status (lines 772-775) ----

\* a reset that leaves the history as it is
ResetContextKeepHistory(ctx) ==
    [ctx EXCEPT !.prev_score = PrevScoreInit, !.pgn = PgnEmpty, !.last_move = NoMove,
                !.active_challenge = FALSE, !.hot_squares = {},
                !.last_move_quality = "Good", !.last_critical_tip_time = 0]

\* lines 304-311: what reset_board assigns in game_context
ResetContext(ctx) ==
    [ctx EXCEPT !.prev_score = PrevScoreInit, !.pgn = PgnEmpty, !.last_move = NoMove,
                !.analysis_history = <<>>, !.active_challenge = FALSE,
                !.hot_squares = {}, !.last_move_quality = "Good",
                !.last_critical_tip_time = 0]

\* lines 772-775: the handler returns the game_context dict
get_game_status(ctx) == ctx

\* lines 797-808: the tool answers that no game is in progress when the move
\* text is empty and the context's fen is the starting one, else it prints
\* the context
get_game_context(ctx) ==
    IF ctx.pgn = PgnEmpty /\ ctx.fen = STARTING_FEN
    THEN [text |-> "No game in progress"]
    ELSE [text |-> "Current FEN", fen |-> ctx.fen, pgn |-> ctx.pgn,
          last_move |-> ctx.last_move, turn |-> ctx.turn]

\* lines 300-327: the board and the coaching memory are reset and, "if loop",
\* the broadcast of the reset tip is handed to the loop
ResetBoard ==
    /\ resets < MaxResets
    /\ resets' = resets + 1
    /\ board' = STARTING_FEN
    /\ game_context' = ResetContext(game_context)
    /\ IF loop = 0 THEN UNCHANGED <<tips, runq>> ELSE ScheduleBroadcast
    /\ UNCHANGED <<loop, hub_thread, threads, ensure, tool, http, engines, raised, control_writes>>
    /\ UNCHANGED <<tips_pushed, runs, now, llm_calls, critical_player_moves>>
    /\ UNCHANGED hubVars

\* ---- /coach/query (lines 167-229) and /game/review (lines 231-298) ----

HttpReturn(h) == [h EXCEPT !.op = "none", !.pc = "idle"]

\* lines 172-185: without an api key the handler returns at once; with the
\* engine binary present it awaits popen_uci, else it goes on to the backend
\* call (which blocks) and returns
CoachQueryStart ==
    /\ http.pc = "idle"
    /\ http.calls < MaxHttpCalls
    /\ \E api_key \in BOOLEAN, stockfish_exists \in BOOLEAN :
          http' = IF api_key /\ stockfish_exists
                  THEN [op |-> "coach_query", pc |-> "popen", calls |-> http.calls + 1]
                  ELSE [http EXCEPT !.calls = @ + 1]
    /\ UNCHANGED <<loop, hub_thread, threads, ensure, tool, engines, raised, control_writes, resets>>
    /\ UNCHANGED <<tips, tips_pushed, runq>>
    /\ UNCHANGED hubVars
    /\ UNCHANGED pipeVars

\* lines 242-251: the coached side's record with the largest cp_loss, if that
\* loss is above 1.0
HasBiggestBlunder(history, player_color) ==
    \E k \in 1..Len(history) :
        /\ history[k].turn = player_color
        /\ history[k].cp_loss > Cp(1)

\* lines 236-281: with no history, or no blunder to drill, or no engine
\* binary, the handler returns; else it awaits popen_uci
GameReviewStart ==
    /\ http.pc = "idle"
    /\ http.calls < MaxHttpCalls
    /\ \E stockfish_exists \in BOOLEAN :
          http' = IF /\ game_context.analysis_history /= <<>>
                     /\ HasBiggestBlunder(game_context.analysis_history,
                                          game_context.player_color)
                     /\ stockfish_exists
                  THEN [op |-> "game_review", pc |-> "popen", calls |-> http.calls + 1]
                  ELSE [http EXCEPT !.calls = @ + 1]
    /\ UNCHANGED <<loop, hub_thread, threads, ensure, tool, engines, raised, control_writes, resets>>
    /\ UNCHANGED <<tips, tips_pushed, runq>>
    /\ UNCHANGED hubVars
    /\ UNCHANGED pipeVars

\* lines 185 and 281: popen_uci returns the engine, or raises into the except
\* clause (198, 293) and the handler returns
HttpSpawned ==
    /\ http.pc = "popen"
    /\ \E spawned \in BOOLEAN :
          IF spawned
          THEN /\ engines' = engines + 1
               /\ http' = [http EXCEPT !.pc = "analyse"]
          ELSE /\ http' = HttpReturn(http)
               /\ UNCHANGED engines
    /\ UNCHANGED <<loop, hub_thread, threads, ensure, tool, raised, control_writes, resets>>
    /\ UNCHANGED <<tips, tips_pushed, runq>>
    /\ UNCHANGED hubVars
    /\ UNCHANGED pipeVars

\* lines 186-187 and 282-283: engine.analyse returns and engine.quit() is
\* awaited; or it raises into the except clause, which does not quit the
\* engine, and the handler returns
HttpAnalysed ==
    /\ http.pc = "analyse"
    /\ \E analysed \in BOOLEAN :
          http' = IF analysed THEN [http EXCEPT !.pc = "quit"] ELSE HttpReturn(http)
    /\ UNCHANGED <<loop, hub_thread, threads, ensure, tool, engines, raised, control_writes, resets>>
    /\ UNCHANGED <<tips, tips_pushed, runq>>
    /\ UNCHANGED hubVars
    /\ UNCHANGED pipeVars

\* lines 187 and 283: engine.quit() has returned; the rest of the handler
\* has no await
HttpQuit ==
    /\ http.pc = "quit"
    /\ engines' = engines - 1
    /\ http' = HttpReturn(http)
    /\ UNCHANGED <<loop, hub_thread, threads, ensure, tool, raised, control_writes, resets>>
    /\ UNCHANGED <<tips, tips_pushed, runq>>
    /\ UNCHANGED hubVars
    /\ UNCHANGED pipeVars

\* =========================================================================
\* specifications
\* =========================================================================

\* module level, lines 34-50 and 102
InitGame ==
    /\ active_connections = <<>>
    /\ conn = [s \in Subs |-> "new"]
    /\ alive = [s \in Subs |-> TRUE]
    /\ disc_calls = [s \in Subs |-> 0]
    /\ send_failed = {}
    /\ tips = [t \in TipIds |-> BcIdle]
    /\ tips_pushed = 0
    /\ runq = <<>>
    /\ board = STARTING_FEN
    /\ game_context = [fen |-> STARTING_FEN, pgn |-> PgnEmpty, last_move |-> NoMove,
                       turn |-> "white",
                       player_color |-> "white", prev_score |-> PrevScoreInit,
                       hot_squares |-> {}, active_challenge |-> FALSE,
                       analysis_history |-> <<>>, last_critical_tip_time |-> 0,
                       last_move_quality |-> "Good", analyze_cpu |-> FALSE]
    /\ runs = [r \in RunIds |-> RunIdle]
    /\ now = NowInit
    /\ llm_calls = 0
    /\ critical_player_moves = 0
    /\ tool = ToolIdle
    /\ http = HttpIdle
    /\ engines = 0
    /\ raised = {}
    /\ control_writes = {}
    /\ resets = 0

\* after the import: ensure_hub_started() at line 882 has returned and the hub
\* thread is serving
Init ==
    /\ InitGame
    /\ loop = 1
    /\ hub_thread = 1
    /\ threads = [k \in ThreadIds |-> IF k = 1 THEN "serving" ELSE "unborn"]
    /\ ensure = [pc |-> "ready", calls |-> 1]

\* during the import, before line 882
InitBoot ==
    /\ InitGame
    /\ loop = 0
    /\ hub_thread = 0
    /\ threads = [k \in ThreadIds |-> "unborn"]
    /\ ensure = [pc |-> "idle", calls |-> 0]

HubNext ==
    \/ \E s \in Subs : ConnectStart(s)
    \/ \E s \in Subs : ConnectAccepted(s)
    \/ \E s \in Subs : ConnectGreeted(s)
    \/ \E s \in Subs : ConnectSnapshot(s)
    \/ \E s \in Subs : TransportDrop(s)
    \/ \E s \in Subs : EndpointDisconnect(s)
    \/ \E s \in Subs : RepeatDisconnect(s)
    \/ \E t \in TipIds : PushCoachingTip(t)
    \/ \E t \in TipIds : TipStart(t)
    \/ \E t \in TipIds : TipSendDone(t)
    \/ \E t \in TipIds : TipReturn(t)

PipeNext ==
    \/ \E r \in RunIds : GameSync(r)
    \/ \E r \in RunIds : RunStart(r)
    \/ \E r \in RunIds : RunSpawned(r)
    \/ \E r \in RunIds : RunAnalyseFailed(r)
    \/ \E r \in RunIds : RunAnalysed(r)
    \/ \E r \in RunIds : RunSendDone(r)
    \/ \E r \in RunIds : RunLlmDone(r)
    \/ \E r \in RunIds : RunQuit(r)
    \/ \E r \in RunIds : RunReturn(r)

Next == HubNext \/ PipeNext

Spec == Init /\ [][Next]_vars

\* the hub alone: websockets and the broadcasts of push_coaching_tip
HubSpec == Init /\ [][HubNext]_vars

\* the pipeline with nobody connected: every broadcast returns at once
PipeOnlyNext ==
    \/ \E r \in RunIds : GameSync(r)
    \/ \E r \in RunIds : RunStart(r)
    \/ \E r \in RunIds : RunSpawned(r)
    \/ \E r \in RunIds : RunAnalyseFailed(r)
    \/ \E r \in RunIds : RunAnalysed(r)
    \/ \E r \in RunIds : RunLlmDone(r)
    \/ \E r \in RunIds : RunQuit(r)
    \/ \E r \in RunIds : RunReturn(r)

PipeSpec == Init /\ [][PipeOnlyNext]_vars

\* the tiers: coached-side moves whose engine scores sit on and next to the
\* thresholds
ClassifySync(r) == GameSyncWith(r, {Fen(r, "white")}, {NoMove, r}, {"black"})
ClassifyAnalysed(r) == RunAnalysedWith(r, BoundaryScores, {"none", "capture"})

ClassifyNext ==
    \/ \E r \in RunIds : ClassifySync(r)
    \/ \E r \in RunIds : RunStart(r)
    \/ \E r \in RunIds : RunSpawned(r)
    \/ \E r \in RunIds : RunAnalyseFailed(r)
    \/ \E r \in RunIds : ClassifyAnalysed(r)
    \/ \E r \in RunIds : RunLlmDone(r)
    \/ \E r \in RunIds : RunQuit(r)
    \/ \E r \in RunIds : RunReturn(r)

ClassifySpec == Init /\ [][ClassifyNext]_vars

\* the hub thread's start and death and the tools of the control thread,
\* with nobody connected
ControlNext ==
    \/ EnsureHubStarted
    \/ EnsureWaitEnd
    \/ \E k \in ThreadIds : HubThreadBoot(k)
    \/ \E k \in ThreadIds : HubThreadDies(k)
    \/ \E t \in TipIds : PushCoachingTip(t)
    \/ PushCoachingTipOffline
    \/ \E t \in TipIds : TipStart(t)
    \/ \E t \in TipIds : TipReturn(t)
    \/ PlayEngineMoveStart
    \/ GetBoardAnalysisStart
    \/ ToolSpawned
    \/ PlayEngineMovePlayed
    \/ GetBoardAnalysisDone
    \/ ToolQuit

ControlSpec == InitBoot /\ [][ControlNext]_vars

\* every operation that spawns an engine: the pipeline on a coached-side
\* move, the two handlers, the two tools
EngineSync == GameSyncWith(1, {Fen(1, "black")}, {1}, {"white"})
EngineAnalysed(r) == RunAnalysedWith(r, {101}, {"none"})

EngineNext ==
    \/ EngineSync
    \/ \E r \in RunIds : RunStart(r)
    \/ \E r \in RunIds : RunSpawned(r)
    \/ \E r \in RunIds : RunAnalyseFailed(r)
    \/ \E r \in RunIds : EngineAnalysed(r)
    \/ \E r \in RunIds : RunQuit(r)
    \/ \E r \in RunIds : RunReturn(r)
    \/ CoachQueryStart
    \/ GameReviewStart
    \/ HttpSpawned
    \/ HttpAnalysed
    \/ HttpQuit
    \/ PlayEngineMoveStart
    \/ GetBoardAnalysisStart
    \/ ToolSpawned
    \/ PlayEngineMoveSlept
    \/ PlayEngineMovePlayed
    \/ GetBoardAnalysisDone
    \/ ToolQuit
    \/ \E t \in TipIds : TipStart(t)
    \/ \E t \in TipIds : TipReturn(t)

EngineSpec == Init /\ [][EngineNext]_vars

\* coached-side moves, with every kind of best move the engine may report
CoachSync(r) == GameSyncWith(r, {Fen(r, "black")}, {r}, {"white"})
CoachAnalysed(r) == RunAnalysedWith(r, {0, 101}, PvKinds)

CoachNext ==
    \/ \E r \in RunIds : CoachSync(r)
    \/ \E r \in RunIds : RunStart(r)
    \/ \E r \in RunIds : RunSpawned(r)
    \/ \E r \in RunIds : RunAnalyseFailed(r)
    \/ \E r \in RunIds : CoachAnalysed(r)
    \/ \E r \in RunIds : RunLlmDone(r)
    \/ \E r \in RunIds : RunQuit(r)
    \/ \E r \in RunIds : RunReturn(r)

CoachSpec == Init /\ [][CoachNext]_vars

\* a game of coached-side moves that is reset at any point
ResetSync(r) == GameSyncPgn(r, {Fen(r, "black")}, {r}, {"white"}, {PgnEmpty, PgnMoves})
ResetAnalysed(r) == RunAnalysedWith(r, {0, 101}, {"none", "capture"})

ResetNext ==
    \/ \E r \in RunIds : ResetSync(r)
    \/ \E r \in RunIds : RunStart(r)
    \/ \E r \in RunIds : RunSpawned(r)
    \/ \E r \in RunIds : RunAnalyseFailed(r)
    \/ \E r \in RunIds : ResetAnalysed(r)
    \/ \E r \in RunIds : RunLlmDone(r)
    \/ \E r \in RunIds : RunQuit(r)
    \/ \E r \in RunIds : RunReturn(r)
    \/ ResetBoard
    \/ \E t \in TipIds : TipStart(t)
    \/ \E t \in TipIds : TipReturn(t)

ResetSpec == Init /\ [][ResetNext]_vars

\* coached-side moves with one websocket that connects, drops and
\* disconnects: the broadcasts of a run suspend at their sends
HoldSync(r) == GameSyncWith(r, {Fen(r, "black")}, {r}, {"white"})
HoldAnalysed(r) == RunAnalysedWith(r, {101}, {"none", "quiet"})

HoldNext ==
    \/ \E r \in RunIds : HoldSync(r)
    \/ \E r \in RunIds : RunStart(r)
    \/ \E r \in RunIds : RunSpawned(r)
    \/ \E r \in RunIds : RunAnalyseFailed(r)
    \/ \E r \in RunIds : HoldAnalysed(r)
    \/ \E r \in RunIds : RunSendDone(r)
    \/ \E r \in RunIds : RunLlmDone(r)
    \/ \E r \in RunIds : RunQuit(r)
    \/ \E r \in RunIds : RunReturn(r)
    \/ \E s \in {1} : ConnectStart(s)
    \/ \E s \in {1} : ConnectAccepted(s)
    \/ \E s \in {1} : ConnectGreeted(s)
    \/ \E s \in {1} : ConnectSnapshot(s)
    \/ \E s \in {1} : TransportDrop(s)
    \/ \E s \in {1} : EndpointDisconnect(s)

HoldSpec == Init /\ [][HoldNext]_vars

\* the tasks handed to the loop: pipeline runs of coached-side moves and
\* the broadcasts of push_coaching_tip, with nobody connected
FifoSync(r) == GameSyncWith(r, {Fen(r, "black")}, {r}, {"white"})
FifoAnalysed(r) == RunAnalysedWith(r, {101}, {"none", "quiet"})

FifoNext ==
    \/ \E r \in RunIds : FifoSync(r)
    \/ \E r \in RunIds : RunStart(r)
    \/ \E r \in RunIds : RunSpawned(r)
    \/ \E r \in RunIds : RunAnalyseFailed(r)
    \/ \E r \in RunIds : FifoAnalysed(r)
    \/ \E r \in RunIds : RunLlmDone(r)
    \/ \E r \in RunIds : RunQuit(r)
    \/ \E r \in RunIds : RunReturn(r)
    \/ \E t \in TipIds : PushCoachingTip(t)
    \/ \E t \in TipIds : TipStart(t)
    \/ \E t \in TipIds : TipReturn(t)

FifoSpec == Init /\ [][FifoNext]_vars

\* moves of both sides, with a loop that goes on running what is ready and
\* engine and backend calls that return: every await of a run ends
LiveSync(r) == GameSyncWith(r, {Fen(r, "black"), Fen(r, "white")}, {r}, {"white"})
LiveAnalysed(r) == RunAnalysedWith(r, {0, 101}, {"none", "quiet"})

LiveNext ==
    \/ \E r \in RunIds : LiveSync(r)
    \/ \E r \in RunIds : RunStart(r)
    \/ \E r \in RunIds : RunSpawned(r)
    \/ \E r \in RunIds : RunAnalyseFailed(r)
    \/ \E r \in RunIds : LiveAnalysed(r)
    \/ \E r \in RunIds : RunLlmDone(r)
    \/ \E r \in RunIds : RunQuit(r)
    \/ \E r \in RunIds : RunReturn(r)

LiveSpec ==
    /\ Init
    /\ [][LiveNext]_vars
    /\ WF_vars(\E r \in RunIds : RunStart(r))
    /\ WF_vars(\E r \in RunIds : RunSpawned(r))
    /\ WF_vars(\E r \in RunIds : RunAnalyseFailed(r) \/ LiveAnalysed(r))
    /\ WF_vars(\E r \in RunIds : RunLlmDone(r))
    /\ WF_vars(\E r \in RunIds : RunQuit(r))
    /\ WF_vars(\E r \in RunIds : RunReturn(r))

\* =========================================================================
\* properties
\* =========================================================================

Tiers == {"Blunder", "Mistake", "Inaccuracy", "Great Move", "Good"}

\* the runs whose analysis has returned, with delta and tier assigned
Analysed == {r \in RunIds : runs[r].analysed}
\* the runs that have decided whose move it was
Judged == {r \in RunIds : runs[r].judged}

\* every broadcast call the loop currently holds
AllBroadcasts == {tips[t] : t \in TipIds} \cup {runs[r].bc : r \in RunIds}

Count(seq, x) == Cardinality({k \in 1..Len(seq) : seq[k] = x})

\* C1: the tier of every analysed move is one of the five and is the one the
\* reference rule gives, with strict comparisons: Blunder iff d > 250 or
\* (material lost and d > 100); Mistake iff not Blunder and d > 100;
\* Inaccuracy iff 30 < d <= 100; Great Move iff d < -50; Good iff
\* -50 <= d <= 30.
C1_TierIsReferenceRule ==
    \A r \in Analysed :
        LET d == runs[r].delta
            m == runs[r].material_lost
            c == runs[r].classification
            blunder == d > Cp(250) \/ (m /\ d > Cp(100))
        IN /\ c \in Tiers
           /\ (c = "Blunder") <=> blunder
           /\ (c = "Mistake") <=> (~blunder /\ d > Cp(100))
           /\ (c = "Inaccuracy") <=> (d > Cp(30) /\ d <= Cp(100))
           /\ (c = "Great Move") <=> (d < 0 - Cp(50))
           /\ (c = "Good") <=> (d >= 0 - Cp(50) /\ d <= Cp(30))

\* a move whose delta is exactly 250 centipawns, without material loss
C1_Witness ==
    \E r \in Analysed :
        /\ runs[r].delta = Cp(250)
        /\ ~runs[r].material_lost
        /\ runs[r].classification = "Mistake"

\* C2: while no coached-side move has been classified Mistake or Blunder the
\* generative backend has not been called, and a coached-side move of any
\* other tier that reaches the cost gate is answered by exactly one
\* broadcast, the locally templated one.
C2_CheapTiersNeverCallBackend ==
    /\ critical_player_moves = 0 => llm_calls = 0
    /\ \A r \in Analysed :
          (runs[r].is_player_move /\ ~IsCritical(runs[r].classification))
              => /\ runs[r].pubs = <<"simple">>
                 /\ runs[r].pc \in {"bc_cheap", "quit", "done"}

\* two moves analysed, none of them a critical coached-side move, the later
\* one a coached-side move answered from the template
C2_Witness ==
    /\ Len(game_context.analysis_history) = 2
    /\ critical_player_moves = 0
    /\ llm_calls = 0
    /\ \E r \in Analysed :
          /\ runs[r].is_player_move
          /\ runs[r].classification = "Inaccuracy"
          /\ runs[r].pubs = <<"simple">>
          /\ runs[r].pc = "done"

\* C3: a run for a move of the non-coached side never waits for the
\* generative backend and never broadcasts the holding event; all it ever
\* broadcasts is at most one templated tip.
C3_OpponentMovesStayCheap ==
    \A r \in Judged :
        ~runs[r].is_player_move
            => /\ runs[r].pc \notin {"llm", "bc_hold", "bc_final"}
               /\ runs[r].pubs \in {<<>>, <<"cpu">>}

\* a Blunder of the non-coached side, answered by the templated tip
C3_Witness ==
    \E r \in Analysed :
        /\ ~runs[r].is_player_move
        /\ runs[r].classification = "Blunder"
        /\ runs[r].pubs = <<"cpu">>
        /\ runs[r].pc = "done"

\* C4: an analysed non-critical move of the non-coached side broadcasts
\* nothing when fewer than 5 time units have passed since the last critical
\* notification, and broadcasts when 5 or more have passed; coached-side
\* moves and critical moves always broadcast.
C4_PacingGate ==
    \A r \in Analysed :
        LET run == runs[r]
            since == run.current_time - run.tip_time
            routine == ~run.is_player_move /\ ~IsCritical(run.classification)
        IN /\ (routine /\ since < 5) => (run.pubs = <<>> /\ run.end = "suppressed")
           /\ (routine /\ since >= 5) => (run.pubs /= <<>> /\ run.end /= "suppressed")
           /\ ~routine => (run.pubs /= <<>> /\ run.end /= "suppressed")
           /\ ~run.is_player_move => run.cpu_on

\* a routine move of the non-coached side analysed 2 time units after a
\* critical notification
C4_Witness ==
    \E r \in Analysed :
        /\ ~runs[r].is_player_move
        /\ ~IsCritical(runs[r].classification)
        /\ runs[r].tip_time >= NowInit
        /\ runs[r].current_time = runs[r].tip_time + 2
        /\ runs[r].pubs = <<>>
        /\ runs[r].pc = "done"

\* C5: a run that finds the mover to be the non-coached side while
\* analyze_cpu is off ends at once and broadcasts nothing.
C5_OpponentSkippedWhenOff ==
    \A r \in Judged :
        (~runs[r].is_player_move /\ ~runs[r].cpu_on)
            => /\ runs[r].pubs = <<>>
               /\ runs[r].pc = "done"
               /\ runs[r].end = "cpu_off"

\* such a run, after an earlier move has been analysed and has left a
\* critical notification behind
C5_Witness ==
    \E r \in Judged :
        /\ ~runs[r].is_player_move
        /\ ~runs[r].cpu_on
        /\ runs[r].end = "cpu_off"
        /\ Len(game_context.analysis_history) = 1
        /\ game_context.last_critical_tip_time >= NowInit

\* the connections a broadcast has been delivered to so far
Delivered(b) == Range(b.tried) \ (b.failedTo \cup {b.cur})

\* C6: a broadcast during which the live list was not changed calls
\* send_text once on every connection of the list, in order, whichever of
\* them raise, delivers to all those that do not raise, and returns.
C6_FailureDoesNotAbort ==
    \A b \in AllBroadcasts :
        ~b.changed =>
            /\ b.pc = "sending" => b.tried = SubSeq(b.startList, 1, b.i)
            /\ b.pc = "done" => /\ b.tried = b.startList
                                /\ Delivered(b) = Range(b.startList) \ b.failedTo

\* three connections, the send to the second raised, the first and the
\* third got the event
C6_Witness ==
    \E b \in AllBroadcasts :
        /\ b.pc = "done"
        /\ ~b.changed
        /\ Len(b.startList) = 3
        /\ b.failedTo = {b.startList[2]}
        /\ Delivered(b) = {b.startList[1], b.startList[3]}

\* C7: a websocket whose connect returned False is not in the live list.
C7_FailedConnectNotRegistered ==
    \A s \in Subs : conn[s] = "failed" => s \notin Range(active_connections)

\* a new send_text of some broadcast is started on websocket s in this step
AttemptStarts(s) ==
    \/ \E t \in TipIds : /\ tips'[t].pc = "sending"
                         /\ tips'[t].cur = s
                         /\ Len(tips'[t].tried) > Len(tips[t].tried)
    \/ \E r \in RunIds : /\ runs'[r].bc.pc = "sending"
                         /\ runs'[r].bc.cur = s
                         /\ (runs'[r].pubs /= runs[r].pubs
                             \/ Len(runs'[r].bc.tried) > Len(runs[r].bc.tried))

\* C8: once disconnect(s) has been called s is not in the live list; a
\* further disconnect(s) leaves the list and every broadcast as they are;
\* and no send_text is started on s any more.
C8_DisconnectIsFinal ==
    /\ [](\A s \in Subs : disc_calls[s] > 0 => s \notin Range(active_connections))
    /\ [][\A s \in Subs :
            (disc_calls[s] > 0 /\ disc_calls'[s] > disc_calls[s])
                => /\ active_connections' = active_connections
                   /\ tips' = tips
                   /\ runs' = runs]_vars
    /\ [][\A s \in Subs : disc_calls[s] > 0 => ~AttemptStarts(s)]_vars

\* disconnect was called twice for s, and a broadcast that started after
\* that is sending to another connection
C8_Witness ==
    \E s \in Subs, t \in TipIds :
        /\ disc_calls[s] = 2
        /\ tips[t].pc = "sending"
        /\ ~tips[t].changed
        /\ s \notin Range(tips[t].startList)

\* C9: when a broadcast returns, every connection that was in the live list
\* when it started and is in it now has had send_text called exactly once.
C9_SnapshotStable ==
    \A b \in AllBroadcasts :
        b.pc = "done" =>
            \A s \in Range(b.startList) \cap Range(b.endList) : Count(b.tried, s) = 1

\* C10 as claimed: a websocket to which a send has failed is no longer in the
\* live list, and no broadcast is sending to it again.
C10_DeadNeverRetried ==
    \A s \in send_failed :
        /\ s \notin Range(active_connections)
        /\ \A b \in AllBroadcasts : b.pc = "sending" => b.cur /= s

\* C10 amended: a websocket to which a send has failed stays in the live
\* list exactly until disconnect is called for it.
C10_FailedStaysUntilDisconnect ==
    \A s \in send_failed : (s \in Range(active_connections)) <=> (disc_calls[s] = 0)

\* a second broadcast is sending to a websocket for which a send has failed
C10_Witness ==
    \E s \in send_failed, t \in TipIds :
        /\ tips_pushed = 2
        /\ tips[t].pc = "sending"
        /\ tips[t].cur = s
        /\ s \in Range(active_connections)

\* ---- C11 ----
\* C11: the shared game state (board, game_context) and the subscriber list
\* are written only by code running on the network loop: no tool of the
\* control thread has written any of them.
C11_OnlyLoopWritesShared == control_writes = {}

\* ---- C12 ----
\* C12: with the network loop unavailable (loop never set within the startup
\* wait, or its thread dead), push_coaching_tip and play_engine_move complete
\* without raising: no tool has propagated an exception from its attempt to
\* schedule on the loop.
C12_ScheduleNeverRaises == \A e \in raised : e[2] /= "schedule"

\* ---- C13 ----
\* C13: a call of ensure_hub_started while the hub thread is alive starts no
\* thread and leaves hub_thread and loop as they are; at most one hub thread
\* is alive at any time.
HubThreadAlive == hub_thread /= 0 /\ hub_thread \in AliveThreads

EnsureCalled == ensure'.calls = ensure.calls + 1

C13_EnsureIdempotent ==
    /\ [](Cardinality(AliveThreads) <= 1)
    /\ [][EnsureCalled /\ HubThreadAlive =>
             /\ threads' = threads
             /\ hub_thread' = hub_thread
             /\ loop' = loop]_vars

\* ensure_hub_started was called a second time while thread 1 was alive
C13_Witness ==
    /\ ensure.calls >= 2
    /\ ensure.pc = "ready"
    /\ hub_thread = 1
    /\ loop = 1
    /\ threads[1] = "serving"
    /\ threads[2] = "unborn"

\* ---- C15 ----
\* C15: when the engine binary cannot be located or spawned, the pipeline,
\* get_board_analysis and play_engine_move end in a no-op or a degraded
\* value: none has propagated the exception of the failed spawn.
C15_MissingEngineNeverRaises == \A e \in raised : e[2] /= "spawn"

\* ---- C14 ----
\* C14: every operation that spawns an engine process (the pipeline,
\* /coach/query, /game/review, get_board_analysis, play_engine_move) has
\* terminated it when it returns or raises, on every exit path: when no such
\* operation is in flight, no engine process is alive.
PipelineEngines ==
    Cardinality({r \in RunIds :
        runs[r].pc \in {"analyse", "bc_cheap", "bc_hold", "llm", "bc_final", "quit"}})

NoEngineOpInFlight ==
    /\ tool.pc = "idle"
    /\ http.pc = "idle"
    /\ \A r \in RunIds : runs[r].pc \in {"idle", "queued", "done", "returned"}

C14_NoEngineOutlivesItsOperation ==
    NoEngineOpInFlight => engines + PipelineEngines = 0

\* ---- C16 ----
\* C16: the stored baseline (prev_score) is always the engine's score of the
\* latest analysed position as the coached side sees it: whenever a run has
\* analysed a move, of either side, the baseline it stores is that score.
\* (The engine's relative score is the view of the side to move: the
\* opponent's after a coached-side move, the coached side's after an
\* opponent's move.)
CoachedScore(run) == IF run.is_player_move THEN 0 - Cp(run.raw) ELSE Cp(run.raw)

JustAnalysed(r) == runs[r].pc = "analyse" /\ runs'[r].analysed

C16_BaselineIsCoachedSideView ==
    [][\A r \in RunIds :
          JustAnalysed(r) => game_context'.prev_score = CoachedScore(runs'[r])]_vars

\* ---- C18 ----
\* C18: for a coached-side move classified Mistake or Blunder whose backend
\* call failed, returned nothing or was not made, the final message holds the
\* fixed fallback text and names the engine's best move.
FinalPublished(r) == runs[r].final /= {}

CriticalCoached(r) ==
    /\ runs[r].analysed
    /\ runs[r].is_player_move
    /\ IsCritical(runs[r].classification)

C19_BackendOnlyWithLegalBestMove ==
    \A r \in RunIds :
        /\ runs[r].pc = "llm" \/ runs[r].backend_called =>
              runs[r].pv \in {"quiet", "capture"}
        /\ CriticalCoached(r) /\ FinalPublished(r) /\ runs[r].pv \in {"none", "illegal"} =>
              /\ ~runs[r].backend_called
              /\ "fallback_text" \in runs[r].final
              /\ runs[r].pubs = <<"holding", "final_fallback">>

\* with an api key set, the engine's candidate was illegal and the fallback
\* has been published
C19_Witness ==
    \E r \in RunIds :
        /\ CriticalCoached(r)
        /\ runs[r].api_key
        /\ runs[r].pv = "illegal"
        /\ ~runs[r].backend_called
        /\ runs[r].pubs = <<"holding", "final_fallback">>

\* ---- C20 ----
\* C20: a run that obtains the engine score s (the mover's view of the new
\* position) sets delta to the old baseline minus s, stores s as the
\* baseline and appends one record {position, move, delta, mover} to the
\* history; nothing else changes baseline or history, so this happens once
\* per analysed run, suppressed runs included.
AppendsOne(old, new, fen, delta, mover) ==
    /\ Len(new) = Len(old) + 1
    /\ SubSeq(new, 1, Len(old)) = old
    /\ new[Len(new)].fen = fen
    /\ new[Len(new)].cp_loss = delta
    /\ new[Len(new)].turn = mover
    /\ "move" \in DOMAIN new[Len(new)]

C20_OneRecordPerAnalysedRun ==
    [][/\ \A r \in RunIds :
             JustAnalysed(r) =>
                LET s == 0 - Cp(runs'[r].raw)
                IN /\ runs'[r].delta = game_context.prev_score - s
                   /\ game_context'.prev_score = s
                   /\ AppendsOne(game_context.analysis_history,
                                 game_context'.analysis_history,
                                 runs[r].fen, runs'[r].delta, runs[r].side_who_moved)
       /\ (\A r \in RunIds : ~JustAnalysed(r)) =>
             /\ game_context'.prev_score = game_context.prev_score
             /\ game_context'.analysis_history = game_context.analysis_history]_vars

\* the second analysed run was suppressed, and its record is in the history
C20_Witness ==
    \E r \in RunIds :
        /\ runs[r].analysed
        /\ runs[r].end = "suppressed"
        /\ runs[r].pubs = <<>>
        /\ Len(game_context.analysis_history) = 2
        /\ game_context.analysis_history[2].cp_loss = runs[r].delta
        /\ game_context.prev_score = 0 - Cp(runs[r].raw)

\* ---- C17 ----
\* C17: from any reachable state, reset() followed by queryStatus() returns
\* the baseline 0.3, an empty history, no highlight squares and no active
\* challenge.
C17_ResetThenStatus ==
    [][resets' = resets + 1 =>
          LET status == get_game_status(game_context')
          IN /\ status.prev_score = PrevScoreInit
             /\ status.analysis_history = <<>>
             /\ status.hot_squares = {}
             /\ status.active_challenge = FALSE]_vars

\* a game with an analysed Mistake or Blunder of the coached side has been
\* reset, and the status is the initial one
C17_Witness ==
    /\ resets = 1
    /\ critical_player_moves > 0
    /\ get_game_status(game_context).prev_score = PrevScoreInit
    /\ get_game_status(game_context).analysis_history = <<>>
    /\ get_game_status(game_context).hot_squares = {}
    /\ board = STARTING_FEN

\* ---- C21 ----
\* C21: a run that classifies a move as Mistake or Blunder sets
\* last_critical_tip_time to the current time, whichever side moved, and no
\* publish of the run comes before that; a run with any other tier, and every
\* other step, leaves the timestamp as it is.
C21_CriticalSetsTimestamp ==
    [][/\ \A r \in RunIds :
             JustAnalysed(r) =>
                /\ runs[r].pubs = <<>>
                /\ IF IsCritical(runs'[r].classification)
                   THEN /\ game_context'.last_critical_tip_time = runs'[r].current_time
                        /\ runs'[r].current_time = now'
                   ELSE game_context'.last_critical_tip_time =
                            game_context.last_critical_tip_time
       /\ (\A r \in RunIds : ~JustAnalysed(r)) =>
             game_context'.last_critical_tip_time = game_context.last_critical_tip_time]_vars

\* a Mistake or Blunder of the non-coached side has set the timestamp
C21_Witness ==
    \E r \in RunIds :
        /\ runs[r].analysed
        /\ ~runs[r].is_player_move
        /\ IsCritical(runs[r].classification)
        /\ runs[r].pubs = <<"cpu">>
        /\ game_context.last_critical_tip_time = runs[r].current_time
        /\ runs[r].current_time > NowInit

\* ---- C22 ----
\* C22: for a coached-side Mistake or Blunder the run publishes the holding
\* message first, the backend call starts only after that broadcast has
\* returned, and then exactly one final coach_tip is published: the
\* broadcasts of the run are the holding message followed by at most one
\* final message, and by exactly one when the run has got through.
FinalKinds == {"final_llm", "final_fallback"}

C22_HoldingBeforeFinal ==
    \A r \in RunIds :
        CriticalCoached(r) =>
            /\ Len(runs[r].pubs) \in {1, 2}
            /\ runs[r].pubs[1] = "holding"
            /\ Len(runs[r].pubs) = 2 => runs[r].pubs[2] \in FinalKinds
            /\ runs[r].pc = "bc_hold" => ~runs[r].backend_called /\ Len(runs[r].pubs) = 1
            /\ runs[r].pc = "llm" => runs[r].pubs = <<"holding">> /\ runs[r].bc.pc = "done"
            /\ runs[r].end = "published" => Len(runs[r].pubs) = 2
            /\ FinalPublished(r) <=> Len(runs[r].pubs) = 2

\* the holding message has been delivered to the websocket and the backend
\* call is under way
C22_Witness ==
    \E r \in RunIds :
        /\ CriticalCoached(r)
        /\ runs[r].pc = "llm"
        /\ runs[r].pubs = <<"holding">>
        /\ Delivered(runs[r].bc) /= {}

\* ---- C23 ----
\* C23: the tasks handed to the network loop begin to run in the order in
\* which they were handed over: a task is added at the end of the queue, the
\* task that starts is the one handed over first, and a pipeline run starts
\* only when every run submitted before it has started; a task that suspends
\* may end after one submitted later.
TaskStarted(k) ==
    IF k[1] = "run" THEN runs[k[2]].pc = "queued" /\ runs'[k[2]].pc /= "queued"
    ELSE tips[k[2]].pc = "queued" /\ tips'[k[2]].pc /= "queued"

Ended(r) == runs[r].pc = "done"

EndedPublished(r) ==
    /\ runs[r].end = "published"
    /\ runs[r].pubs /= <<>>
    /\ runs[r].pubs[Len(runs[r].pubs)] \in {"cpu", "simple"} \cup FinalKinds

C24_EndsPublished ==
    \A r \in RunIds :
        Ended(r) /\ runs[r].end \notin {"cpu_off", "no_engine", "spawn_failed", "suppressed"} =>
            EndedPublished(r)

\* C24 (amended): every pipeline run that was started ends; a run that was
\* neither skipped, nor suppressed, nor aborted by an error (a position the
\* board rejects, a failing engine analysis) ends only after it has published
\* its final coach event, and a run that has published ends as Published.
C24_EndsAndPublishesUnlessAborted ==
    /\ \A r \in RunIds :
          (runs[r].pc = "queued") ~> (runs[r].pc \in {"done", "returned"})
    /\ [](\A r \in RunIds :
            /\ Ended(r) =>
                  runs[r].end \in {"cpu_off", "no_engine", "spawn_failed", "suppressed",
                                   "bad_fen", "analyse_failed", "published"}
            /\ Ended(r) /\ runs[r].end = "published" => EndedPublished(r)
            /\ Ended(r) /\ runs[r].pubs /= <<>> => EndedPublished(r)
            /\ Ended(r) /\ CriticalCoached(r) =>
                  runs[r].pubs[Len(runs[r].pubs)] \in FinalKinds)

\* a coached-side Mistake or Blunder has ended after its final message, and
\* the other run has ended too
C24_Witness ==
    \E r \in RunIds :
        /\ Ended(r)
        /\ CriticalCoached(r)
        /\ Len(runs[r].pubs) = 2
        /\ EndedPublished(r)
        /\ \A o \in RunIds : runs[o].pc \in {"done", "returned"}

\* ---- C25 ----
\* C25: a broadcast never changes the live list: the list changes only in a
\* step of connect or of disconnect, and a broadcast during which no connect
\* or disconnect changed the list returns with the list it started with,
\* whichever of its sends failed.
ConnectOrDisconnectStep ==
    \E s \in Subs : conn'[s] /= conn[s] \/ disc_calls'[s] /= disc_calls[s]

C25_BroadcastKeepsLiveList ==
    /\ [][active_connections' /= active_connections => ConnectOrDisconnectStep]_vars
    /\ [](\A b \in AllBroadcasts :
            b.pc = "done" /\ ~b.changed =>
                b.endList = b.startList)
    /\ [](\A t \in TipIds :
            tips[t].pc = "sending" /\ ~tips[t].changed =>
                active_connections = tips[t].startList)

\* a broadcast to two websockets has returned, a send of it has failed, and
\* the live list is the one it started with
C25_Witness ==
    \E t \in TipIds :
        /\ tips[t].pc = "done"
        /\ ~tips[t].changed
        /\ tips[t].failedTo /= {}
        /\ Len(tips[t].startList) = 2
        /\ tips[t].endList = tips[t].startList
        /\ active_connections = tips[t].startList

\* ---- C26 ----
\* C26: with several runs in flight no baseline update is lost: each run
\* takes its delta against the baseline as the run before it left it and
\* writes its own score in the same step, so the baseline is the initial one
\* less the deltas of all records, in whatever order the runs got their
\* scores, and it is the score of the run that wrote last.
RECURSIVE SumCpLoss(_)
SumCpLoss(history) ==
    IF history = <<>> THEN 0
    ELSE history[1].cp_loss + SumCpLoss(Tail(history))

C26_NoLostBaselineUpdate ==
    /\ [](game_context.prev_score =
              PrevScoreInit - SumCpLoss(game_context.analysis_history))
    /\ [][\A r \in RunIds :
             JustAnalysed(r) =>
                /\ game_context'.prev_score = game_context.prev_score - runs'[r].delta
                /\ game_context'.prev_score = 0 - Cp(runs'[r].raw)]_vars

\* two runs were waiting for the engine together and the run of the later
\* move got its score first
C26_Witness ==
    /\ Len(game_context.analysis_history) = 2
    /\ game_context.analysis_history[1].fen.id = 2
    /\ game_context.analysis_history[2].fen.id = 1
    /\ game_context.analysis_history[1].cp_loss /= 0
    /\ game_context.prev_score = PrevScoreInit - SumCpLoss(game_context.analysis_history)

\* ---- C27 ----
\* C27: every history record pairs a position with the move that led to it:
\* the record of the n-th reported position carries the n-th reported move
\* (or none, when none was reported with it), also when a later report came
\* in while the run was waiting for the engine.
C27_RecordPairsPositionWithItsMove ==
    \A k \in 1..Len(game_context.analysis_history) :
        game_context.analysis_history[k].move \in
            {NoMove, game_context.analysis_history[k].fen.id}

\* ---- C28 ----
\* C28: play_engine_move pushes the engine's move on the position the engine
\* was asked about: when the tool writes the board, the board is still the
\* one handed to engine.play, and the new board is that position plus the
\* move.
PlayEngineMoveWrites == tool.pc = "play" /\ tool'.pc /= "play" /\ board' /= board

C28_MovePushedOnAskedPosition ==
    [][PlayEngineMoveWrites =>
          /\ board = tool.asked
          /\ board' = AfterEngineMove(tool.asked)]_vars

\* ---- C29 ----
\* C29: whenever ensure_hub_started reports the hub ready, the loop handle
\* is the loop of the thread that hub_thread names, the one started last;
\* after a thread death and a restart the handle of the dead thread's loop
\* is never reported as ready.
EnsureReportsReady == ensure.pc = "waiting" /\ ensure'.pc = "ready"

C29_ReadyHandleIsOfCurrentThread ==
    [][EnsureReportsReady => loop = hub_thread]_vars

\* ---- C30 ----
\* C30: after a reset the position of the game context agrees with the
\* board, both the starting position, and get_game_context answers that no
\* game is in progress.
C30_ResetContextAgreesWithBoard ==
    [][resets' = resets + 1 =>
          /\ board' = STARTING_FEN
          /\ game_context'.fen = board'
          /\ get_game_context(game_context').text = "No game in progress"]_vars

\* ---- C31 ----
\* C31: a pipeline run that is skipped, because the mover is the side that
\* is not coached while analyze_cpu is off or because the engine binary is
\* missing, ends at once without an engine process, and no step of it
\* changes the baseline, the history, the highlight squares, the quality of
\* the last move or the timestamp of the last critical tip.
SkippedEnds == {"cpu_off", "no_engine"}

\* run r starts and its mover is the other side with analyze_cpu off, or it
\* finds no engine binary
StartsSkipped(r) ==
    /\ runs[r].pc = "queued"
    /\ runs'[r].pc /= "queued"
    /\ \/ /\ Other(runs[r].fen.turn) /= game_context.player_color
          /\ ~game_context.analyze_cpu
       \/ runs'[r].end = "no_engine"

\* a later step of a run that was skipped
StepsAfterSkip(r) ==
    /\ runs[r].end \in SkippedEnds
    /\ runs'[r] /= runs[r]

CoachingMemory(ctx) ==
    <<ctx.prev_score, ctx.analysis_history, ctx.hot_squares,
      ctx.last_move_quality, ctx.last_critical_tip_time>>

C31_SkippedRunChangesNothing ==
    [][\A r \in RunIds :
          StartsSkipped(r) \/ StepsAfterSkip(r) =>
             /\ runs'[r].pc \in {"done", "returned"}
             /\ ~runs'[r].analysed
             /\ PipelineEngines' = PipelineEngines
             /\ engines' = engines
             /\ llm_calls' = llm_calls
             /\ CoachingMemory(game_context') = CoachingMemory(game_context)]_vars

\* after a first move was analysed and recorded, the run of the second move
\* has been skipped because analyze_cpu is off, and the memory is that of the
\* first move
C31_Witness ==
    /\ runs[2].pc = "done"
    /\ runs[2].end = "cpu_off"
    /\ Len(game_context.analysis_history) = 1
    /\ game_context.prev_score /= PrevScoreInit

====
